---- MODULE Spec2Model ----
(***************************************************************************)
(* Model of the git-hook pipeline of chirag6451/react_hooks: the .husky    *)
(* hook script and the four check scripts it starts (check-gitignore,      *)
(* check-lowercase, build, git-reminder).                                  *)
(*                                                                         *)
(* Text is modelled as a sequence of one-character strings.  The pattern   *)
(* lists of the gitignore scripts are scaled down to short patterns that   *)
(* keep the structure of the real lists:                                   *)
(*    "n"   node_modules      "n/"  node_modules/                          *)
(*    "e"   .env              "el"  .env.local   (".env" is a substring)   *)
(*    "d"   .DS_Store         (listed twice by check-gitignore.js:38,63)   *)
(* "#" stands for the text of the generated header comment.                *)
(***************************************************************************)
EXTENDS Integers, Sequences, FiniteSets, TLC

\* ------------------------------------------------------------------ bounds
MaxLen == 3          \* longest initial .gitignore content, in characters
MaxAudits == 2       \* audits run one after another on the same file

\* ------------------------------------------------------------- characters
NL == "\n"
SP == " "
HeaderChar == "#"
Alphabet == {"e", "l", "n", "d", "/", NL, SP}

\* all texts of at most n characters
RECURSIVE TextsUpTo(_)
TextsUpTo(n) ==
  IF n = 0 THEN {<<>>}
  ELSE LET shorter == TextsUpTo(n - 1)
       IN  shorter \cup {Append(t, c) : t \in {s \in shorter : Len(s) = n - 1}, c \in Alphabet}

\* ---------------------------------------------------------- string helpers
\* String.prototype.startsWith
StartsWith(s, p) ==
  /\ Len(p) <= Len(s)
  /\ SubSeq(s, 1, Len(p)) = p

\* String.prototype.endsWith
EndsWith(s, p) ==
  /\ Len(p) <= Len(s)
  /\ SubSeq(s, Len(s) - Len(p) + 1, Len(s)) = p

\* String.prototype.includes
Includes(s, p) ==
  \E i \in 1..(Len(s) + 1) :
     /\ i + Len(p) - 1 <= Len(s)
     /\ SubSeq(s, i, i + Len(p) - 1) = p

\* String.prototype.split('\n'): "a\n" gives <<"a", "">>, "" gives <<"">>
RECURSIVE SplitFrom(_, _, _)
SplitFrom(s, i, line) ==
  IF i > Len(s) THEN <<line>>
  ELSE IF s[i] = NL THEN <<line>> \o SplitFrom(s, i + 1, <<>>)
  ELSE SplitFrom(s, i + 1, Append(line, s[i]))

SplitLines(s) == SplitFrom(s, 1, <<>>)

\* String.prototype.trim
RECURSIVE TrimLeft(_)
TrimLeft(s) ==
  IF s # <<>> /\ Head(s) \in {SP, NL} THEN TrimLeft(Tail(s)) ELSE s

RECURSIVE TrimRight(_)
TrimRight(s) ==
  IF s # <<>> /\ s[Len(s)] \in {SP, NL} THEN TrimRight(SubSeq(s, 1, Len(s) - 1)) ELSE s

Trim(s) == TrimRight(TrimLeft(s))

\* Array.prototype.join('\n')
RECURSIVE JoinNL(_)
JoinNL(lines) ==
  IF lines = <<>> THEN <<>>
  ELSE IF Len(lines) = 1 THEN lines[1]
  ELSE lines[1] \o <<NL>> \o JoinNL(Tail(lines))

\* every element followed by '\n'
RECURSIVE EachLineNL(_)
EachLineNL(lines) ==
  IF lines = <<>> THEN <<>> ELSE lines[1] \o <<NL>> \o EachLineNL(Tail(lines))

\* ------------------------------------------------------- the pattern lists
\* check-gitignore.js, appending version: directory patterns carry a
\* trailing slash and .DS_Store is listed twice
essentialPatternsAppend == << <<"n", "/">>, <<"e">>, <<"e", "l">>, <<"d">>, <<"d">> >>

\* check-gitignore.js (configurable version) and the substring version
essentialPatterns == << <<"n">>, <<"e">>, <<"e", "l">>, <<"d">> >>

GitignoreVersions == {"append", "substring", "configurable"}

PatternsOf(version) ==
  IF version = "append" THEN essentialPatternsAppend ELSE essentialPatterns

\* ------------------------------------------------- missing-pattern searches
\* appending version: exact match against the trimmed lines
MissingExact(content) ==
  LET lines == SplitLines(content)
      existingPatterns == {Trim(lines[i]) : i \in 1..Len(lines)}
      IsMissing(pattern) == pattern \notin existingPatterns
  IN  SelectSeq(essentialPatternsAppend, IsMissing)

\* substring version: the pattern occurs nowhere in the file text
MissingSubstring(existingContent) ==
  LET IsMissing(pattern) == ~ Includes(existingContent, pattern)
  IN  SelectSeq(essentialPatterns, IsMissing)

\* configurable version: a trimmed line equals the pattern or starts with pattern + "/"
PatternFound(gitignoreContent, pattern) ==
  LET lines == SplitLines(gitignoreContent)
  IN  \E i \in 1..Len(lines) :
         \/ Trim(lines[i]) = pattern
         \/ StartsWith(Trim(lines[i]), pattern \o <<"/">>)

MissingLineOrPrefix(gitignoreContent) ==
  LET IsMissing(pattern) == ~ PatternFound(gitignoreContent, pattern)
  IN  SelectSeq(essentialPatterns, IsMissing)

\* --------------------------------------------------------- text that is added
\* the lines one after another, with nothing between them
RECURSIVE ConcatAll(_)
ConcatAll(lines) ==
  IF lines = <<>> THEN <<>> ELSE Head(lines) \o ConcatAll(Tail(lines))

\* as contentToAppend, but the patterns are appended without line breaks
contentToAppendUnbroken(gitignoreContent, missingPatterns) ==
  (IF gitignoreContent # <<>> /\ ~ EndsWith(gitignoreContent, <<NL>>) THEN <<NL>> ELSE <<>>)
    \o <<NL, HeaderChar, NL>>
    \o ConcatAll(missingPatterns)
    \o <<NL>>

\* appending version: contentToAppend
contentToAppend(gitignoreContent, missingPatterns) ==
  (IF gitignoreContent # <<>> /\ ~ EndsWith(gitignoreContent, <<NL>>) THEN <<NL>> ELSE <<>>)
    \o <<NL, HeaderChar, NL>>
    \o JoinNL(missingPatterns)
    \o <<NL>>

\* as additions, but without the newline that ends an unterminated last line
additionsNoSeparator(existingContent, missingPatterns) ==
  <<HeaderChar, NL>> \o EachLineNL(missingPatterns)

\* substring version: additions
additions(existingContent, missingPatterns) ==
  (IF existingContent # <<>> /\ ~ EndsWith(existingContent, <<NL>>) THEN <<NL>> ELSE <<>>)
    \o <<HeaderChar, NL>>
    \o EachLineNL(missingPatterns)

\* ------------------------------------------------------------ configuration
Flags == {"unset", "true", "false"}

\* what hooks-config.js holds for one hook: no entry at all, or an entry
\* whose flags are each given or omitted
NoEntry == [present |-> FALSE, enabled |-> "unset", enforce |-> "unset"]
Entries == {NoEntry} \cup [present : {TRUE}, enabled : Flags, enforce : Flags]

\* outcome of loading hooks-config.js / hooks-config.mjs:
\*   absent     no config file            throws     require()/import() throws
\*   loaded     the module's export       undefined  the module exports no object
ConfigLoads == {"absent", "throws", "loaded", "undefined"}

Checks == {"gitignore", "lowercase", "build", "gitReminder"}

\* the hard-coded `let config = {...}` of each configurable script
DefaultEntry(check) ==
  [present |-> TRUE, enabled |-> "true",
   enforce |-> IF check \in {"gitignore", "build"} THEN "true" ELSE "false"]

\* as EffectiveEntry, but a failed load leaves an empty config object
EffectiveEntryLostOnThrow(check, load, entry) ==
  IF load = "loaded" THEN entry
  ELSE IF load = "throws" THEN NoEntry
  ELSE DefaultEntry(check)

\* config = require(configPath): the loaded object replaces the default one
EffectiveEntry(check, load, entry) ==
  IF load = "loaded" THEN entry ELSE DefaultEntry(check)

\* if (!config.x || config.x.enabled === false)
IsDisabled(cfg) == ~ cfg.present \/ cfg.enabled = "false"

\* const shouldEnforce = config.x && config.x.enforce === true
shouldEnforce(cfg) == cfg.present /\ cfg.enforce = "true"

\* ------------------------------------------------------ check-gitignore runs
\* result of one run of a check-gitignore script on the file (exists, content)
\* how: "checked", "disabled" (the early return of a disabled hook), "skipped"
\* (nothing to look at), "crashed" (an exception reached the outer catch),
\* "caught" (an exception reached the catch block around the check's work)
GitignoreResult(exists, content, wrote, added, exit, how, missing) ==
  [exists |-> exists, content |-> content, wrote |-> wrote, added |-> added,
   exit |-> exit, how |-> how, missing |-> missing]

\* check-gitignore.js, appending version (checkAndUpdateGitignore)
checkAndUpdateGitignore(exists, content, writeFails, addFails) ==
  LET gitignoreContent == IF exists THEN content ELSE <<>>
      missingPatterns == MissingExact(gitignoreContent)
  IN  IF missingPatterns = <<>>
        THEN GitignoreResult(exists, content, FALSE, FALSE, 0, "checked", missingPatterns)
      ELSE IF writeFails
        THEN GitignoreResult(exists, content, FALSE, FALSE, 1, "checked", missingPatterns)
      ELSE GitignoreResult(TRUE, gitignoreContent \o contentToAppend(gitignoreContent, missingPatterns),
                           TRUE, ~ addFails, 0, "checked", missingPatterns)

\* check-gitignore.js, substring version
checkGitignoreSubstring(exists, content, writeFails) ==
  LET existingContent == IF exists THEN content ELSE <<>>
      missingPatterns == MissingSubstring(existingContent)
  IN  IF missingPatterns = <<>>
        THEN GitignoreResult(exists, content, FALSE, FALSE, 0, "checked", missingPatterns)
      ELSE IF writeFails
        THEN GitignoreResult(exists, content, FALSE, FALSE, 1, "checked", missingPatterns)
      ELSE GitignoreResult(TRUE, existingContent \o additions(existingContent, missingPatterns),
                           TRUE, FALSE, 0, "checked", missingPatterns)

\* check-gitignore.js, configurable version: reports, never writes
checkGitignoreConfigurable(load, entry, exists, content) ==
  LET cfg == EffectiveEntry("gitignore", load, entry)
      missingPatterns == MissingLineOrPrefix(content)
  IN  IF load = "undefined"
        THEN GitignoreResult(exists, content, FALSE, FALSE, 0, "crashed", <<>>)
      ELSE IF IsDisabled(cfg)
        THEN GitignoreResult(exists, content, FALSE, FALSE, 0, "disabled", <<>>)
      ELSE IF ~ exists
        THEN GitignoreResult(exists, content, FALSE, FALSE,
                             IF shouldEnforce(cfg) THEN 1 ELSE 0, "checked", essentialPatterns)
      ELSE GitignoreResult(exists, content, FALSE, FALSE,
                           IF missingPatterns # <<>> /\ shouldEnforce(cfg) THEN 1 ELSE 0,
                           "checked", missingPatterns)

\* the script `npm run check-gitignore` starts
CheckGitignore(version, load, entry, exists, content, writeFails, addFails) ==
  CASE version = "append"       -> checkAndUpdateGitignore(exists, content, writeFails, addFails)
    [] version = "substring"    -> checkGitignoreSubstring(exists, content, writeFails)
    [] version = "configurable" -> checkGitignoreConfigurable(load, entry, exists, content)

\* ------------------------------------------------------- check-lowercase runs
LowercaseVersions == {"blocking", "advisory"}

\* kinds of staged (non-deleted) files the scan meets
\*   skipped    under node_modules/, /build/, /dist/, or a dot file
\*   upperName  the base name has an uppercase letter
\*   code       the extension is one of codeFileExtensions
\*   readable   fs.readFileSync succeeds
\*   upperImport  the file has a relative import path with an uppercase letter
StagedKinds ==
  { [skipped |-> TRUE,  upperName |-> TRUE,  code |-> TRUE,  readable |-> TRUE,  upperImport |-> TRUE],
    [skipped |-> FALSE, upperName |-> TRUE,  code |-> FALSE, readable |-> TRUE,  upperImport |-> FALSE],
    [skipped |-> FALSE, upperName |-> FALSE, code |-> TRUE,  readable |-> TRUE,  upperImport |-> TRUE],
    [skipped |-> FALSE, upperName |-> FALSE, code |-> TRUE,  readable |-> FALSE, upperImport |-> TRUE],
    [skipped |-> FALSE, upperName |-> FALSE, code |-> TRUE,  readable |-> TRUE,  upperImport |-> FALSE] }

\* errors.fileNames / warnings.fileNames
FlaggedNames(stagedFiles) == {f \in stagedFiles : ~ f.skipped /\ f.upperName}

\* errors.imports / warnings.imports
FlaggedImports(stagedFiles) ==
  {f \in stagedFiles : ~ f.skipped /\ f.code /\ f.readable /\ f.upperImport}

\* hasErrors / hasWarnings
hasErrors(stagedFiles) == FlaggedNames(stagedFiles) # {} \/ FlaggedImports(stagedFiles) # {}

\* exit code of check-lowercase.js; neither version reads hooks-config.js
LowercaseExit(version, stagedFiles) ==
  IF version = "blocking" /\ hasErrors(stagedFiles) THEN 1 ELSE 0

\* ----------------------------------------------- check-lowercase, path by path
\* Staged paths and import targets as texts.  Directory names are scaled to
\* one character: "n" node_modules, "b" build, "d" dist; "a" and "A" are a
\* lowercase and an uppercase letter.  In import targets "h" stands for
\* `http://` and "s" for `https://`.
MaxPath == 4         \* longest staged path, in characters
MaxTarget == 3       \* longest import target, in characters

PathChars == {"/", ".", "a", "A", "n", "b", "d"}
TargetChars == {".", "/", "a", "A", "h", "s"}

RECURSIVE TextsOver(_, _)
TextsOver(chars, n) ==
  IF n = 0 THEN {<<>>}
  ELSE LET shorter == TextsOver(chars, n - 1)
       IN  shorter \cup {Append(t, c) : t \in {x \in shorter : Len(x) = n - 1}, c \in chars}

\* paths as `git diff --cached --name-only` prints them: relative to the
\* repository root, no empty segment
StagedPaths ==
  {f \in TextsOver(PathChars, MaxPath) :
     /\ f # <<>>
     /\ f[1] # "/"
     /\ f[Len(f)] # "/"
     /\ ~ Includes(f, <<"/", "/">>)}

ImportTargets == TextsOver(TargetChars, MaxTarget) \ {<<>>}

\* String.prototype.toLowerCase
ToLowerCase(s) == [i \in 1..Len(s) |-> IF s[i] = "A" THEN "a" ELSE s[i]]

\* path.basename: the text after the last "/"
RECURSIVE basename(_)
basename(file) ==
  IF file = <<>> \/ file[Len(file)] = "/" THEN <<>>
  ELSE Append(basename(SubSeq(file, 1, Len(file) - 1)), file[Len(file)])

\* Skip node_modules, build directories, and dot files
SkippedFile(file) ==
  \/ Includes(file, <<"n", "/">>)
  \/ Includes(file, <<"/", "b", "/">>)
  \/ Includes(file, <<"/", "d", "/">>)
  \/ StartsWith(basename(file), <<".">>)

\* if (fileName !== fileName.toLowerCase())
UppercaseFileName(file) == basename(file) # ToLowerCase(basename(file))

\* as SkippedImport, but package imports are not skipped
SkippedImportKeepsPackages(importPath) ==
  \/ ToLowerCase(importPath) = importPath
  \/ StartsWith(importPath, <<"h">>)
  \/ StartsWith(importPath, <<"s">>)

\* Skip package imports, relative path imports without uppercase, and URL imports
SkippedImport(importPath) ==
  \/ ~ StartsWith(importPath, <<".">>)
  \/ ToLowerCase(importPath) = importPath
  \/ StartsWith(importPath, <<"h">>)
  \/ StartsWith(importPath, <<"s">>)

\* the two buckets after the loop over one staged file whose text holds the
\* import targets `targets`
\*   code      the extension is one of codeFileExtensions
\*   readable  fs.readFileSync succeeds
LowercaseScan(file, code, readable, targets) ==
  [file |-> file, code |-> code, readable |-> readable, targets |-> targets,
   fileNames |-> IF ~ SkippedFile(file) /\ UppercaseFileName(file) THEN {file} ELSE {},
   imports |-> IF ~ SkippedFile(file) /\ code /\ readable
                 THEN {t \in targets : ~ SkippedImport(t)} ELSE {}]

\* ------------------------------------------------------------------ build runs
\*   direct        the hook's `npm run build` is the project's own build command
\*   configurable  build-react-apps.js reading hooks-config.js
\*   allReact      build-react-apps.js building every React app found
BuildVersions == {"direct", "configurable", "allReact"}

MaxMembers == 2      \* workspace members / React apps in the repository

\* a member package: has a build script, is touched by the staged files, its build succeeds
Members == [hasBuild : BOOLEAN, affected : BOOLEAN, ok : BOOLEAN]

MemberLists == UNION {[1..n -> Members] : n \in 0..MaxMembers}

\* appsToBuild: members with a build script that the staged files affect
appsToBuild(members) ==
  LET Selected(m) == m.hasBuild /\ m.affected
  IN  SelectSeq(members, Selected)

\* length of the prefix of apps that the monorepo loop attempts: it leaves
\* the loop (process.exit or return) in the catch block of the first failure
RECURSIVE AttemptedUntilFailure(_)
AttemptedUntilFailure(apps) ==
  IF apps = <<>> THEN 0
  ELSE IF ~ Head(apps).ok THEN 1
  ELSE 1 + AttemptedUntilFailure(Tail(apps))

BuildResult(exit, how, attempted, failed) ==
  [exit |-> exit, how |-> how, attempted |-> attempted, failed |-> failed]

\* the root package.json: absent, without a build script, or with a build
\* script that succeeds or fails
Roots == {"noPackageJson", "noBuildScript", "buildOk", "buildFails"}

\* what a build run meets
\*   fault: "none", "outer" (a throw outside the try block), "inner" (inside it)
BuildInput(hasJsChanges, fault, isMonorepo, root, members) ==
  [hasJsChanges |-> hasJsChanges, fault |-> fault, isMonorepo |-> isMonorepo,
   root |-> root, members |-> members]

\* build-react-apps.js, configurable version
buildConfigurable(load, entry, in) ==
  LET cfg == EffectiveEntry("build", load, entry)
      apps == appsToBuild(in.members)
      n == AttemptedUntilFailure(apps)
      memberFailed == n > 0 /\ ~ apps[n].ok
      rootBuilt == in.root \in {"buildOk", "buildFails"}
      rootFailed == in.root = "buildFails"
  IN  IF load = "undefined" THEN BuildResult(0, "crashed", 0, FALSE)
      ELSE IF IsDisabled(cfg) THEN BuildResult(0, "disabled", 0, FALSE)
      ELSE IF in.fault = "outer" THEN BuildResult(0, "crashed", 0, FALSE)
      ELSE IF ~ in.hasJsChanges THEN BuildResult(0, "skipped", 0, FALSE)
      ELSE IF in.fault = "inner"
        THEN BuildResult(IF shouldEnforce(cfg) THEN 1 ELSE 0, "caught", 0, FALSE)
      ELSE IF in.isMonorepo
        THEN BuildResult(IF memberFailed /\ shouldEnforce(cfg) THEN 1 ELSE 0, "checked", n, memberFailed)
      ELSE BuildResult(IF rootFailed /\ shouldEnforce(cfg) THEN 1 ELSE 0, "checked",
                       IF rootBuilt THEN 1 ELSE 0, rootFailed)

\* build-react-apps.js, all-React-apps version (buildReactApps): forEach
\* builds every app and remembers whether all builds succeeded
buildReactApps(in) ==
  LET reactApps == SelectSeq(in.members, LAMBDA m : m.hasBuild)
      allBuildsSuccessful == \A i \in 1..Len(reactApps) : reactApps[i].ok
  IN  BuildResult(IF allBuildsSuccessful THEN 0 ELSE 1, "checked", Len(reactApps), ~ allBuildsSuccessful)

\* `npm run build` running the project's own build command; npm fails when
\* the script is missing
buildDirect(in) ==
  BuildResult(IF in.root = "buildOk" THEN 0 ELSE 1, "checked",
              IF in.root \in {"buildOk", "buildFails"} THEN 1 ELSE 0,
              in.root = "buildFails")

\* ------------------------------------------- the workspace loop, build by build
\* Member directories and staged files as texts: "a", "ab" and "b" are
\* member directories (`packages/a`, `packages/ab`, `packages/b`), "x" is a
\* file name, "s" stands for the word `shared` and "c" for `common`.
MaxStaged == 2       \* staged files in one commit

MemberPaths == {<<"a">>, <<"a", "b">>, <<"b">>}

StagedCandidates ==
  {<<"a", "/", "x">>, <<"a", "b", "/", "x">>, <<"b", "/", "x">>, <<"a", "/", "s">>, <<"c", "/", "x">>}

StagedSets == {fs \in SUBSET StagedCandidates : fs # {} /\ Cardinality(fs) <= MaxStaged}

\* workspace members in discovery order: directory, has a build script, its build succeeds
WorkspaceLists ==
  {ms \in UNION {[1..n -> [path : MemberPaths, hasBuild : BOOLEAN, ok : BOOLEAN]] : n \in 0..MaxMembers} :
     \A i, j \in 1..Len(ms) : i # j => ms[i].path # ms[j].path}

\* isAffected: a staged file starts with the member's path or has `shared`
\* or `common` in its path
isAffected(appRelativePath, stagedFiles) ==
  \E file \in stagedFiles :
     \/ StartsWith(file, appRelativePath)
     \/ Includes(file, <<"s">>)
     \/ Includes(file, <<"c">>)

\* the members with the `affected` flag the filter computes for them
WithAffected(members, stagedFiles) ==
  [i \in 1..Len(members) |->
     [path |-> members[i].path, hasBuild |-> members[i].hasBuild, ok |-> members[i].ok,
      affected |-> isAffected(members[i].path, stagedFiles)]]

\* as CanStartBuild, but a build is started while another one runs
CanStartBuildAsync(running) == TRUE

\* execSync returns when the child has exited: no build starts while one runs
CanStartBuild(running) == running = {}

\* ------------------------------------------------------------ git-reminder runs
\*   configurable  git-reminder.js reading hooks-config.js
\*   plain         git-reminder.js that only prints reminders
ReminderVersions == {"configurable", "plain"}

DefaultHoursThreshold == 4

\* settings.hoursThreshold values tried; 0 stands for an omitted or zero setting
Thresholds == {0, 2, 4}

\* minutes since the last commit; -1 when the repository has no commit
ElapsedMinutes == {-1, 180, 242, 244, 300}

\* config.gitReminder.settings?.hoursThreshold || 4
hoursThreshold(setting) == IF setting = 0 THEN DefaultHoursThreshold ELSE setting

\* ((now - lastCommitTime) / 3600000).toFixed(1), in tenths of an hour
\* (ElapsedMinutes holds no value that lies exactly between two tenths)
hoursAgoTenths(minutes) == (minutes * 10 + 30) \div 60

ReminderInput(inRepo, changes, minutes, behind, fetchFails, setting) ==
  [inRepo |-> inRepo, changes |-> changes, minutes |-> minutes, behind |-> behind,
   fetchFails |-> fetchFails, setting |-> setting]

\* as statusPorcelain, but only changes that are not staged are listed
statusPorcelainUnstagedOnly(staged, unstaged) == unstaged

\* `git status --porcelain` prints a line for every staged change and for
\* every unstaged or untracked file: whether its output is non-empty
statusPorcelain(staged, unstaged) == staged \/ unstaged

\* the three findings
Stale(in, threshold) == in.minutes >= 0 /\ hoursAgoTenths(in.minutes) > threshold * 10
Behind(in) == in.minutes >= 0 /\ ~ in.fetchFails /\ in.behind > 0
\* as ReminderFinding, but a branch behind its upstream is not a finding
ReminderFindingNotBehind(in, threshold) == in.inRepo /\ (in.changes \/ Stale(in, threshold))

ReminderFinding(in, threshold) == in.inRepo /\ (in.changes \/ Stale(in, threshold) \/ Behind(in))

ReminderResult(exit, how, finding) == [exit |-> exit, how |-> how, finding |-> finding]

\* the threshold of a run: settings.hoursThreshold of the config object in use
configuredThreshold(load, in) ==
  hoursThreshold(IF load = "loaded" THEN in.setting ELSE DefaultHoursThreshold)

\* git-reminder.js, configurable version
gitReminderConfigurable(load, entry, in) ==
  LET cfg == EffectiveEntry("gitReminder", load, entry)
      threshold == configuredThreshold(load, in)
      hasIssues == shouldEnforce(cfg) /\ ReminderFinding(in, threshold)
  IN  IF load = "undefined" THEN ReminderResult(0, "crashed", FALSE)
      ELSE IF IsDisabled(cfg) THEN ReminderResult(0, "disabled", FALSE)
      ELSE IF ~ in.inRepo THEN ReminderResult(0, "skipped", FALSE)
      ELSE ReminderResult(IF hasIssues THEN 1 ELSE 0, "checked", ReminderFinding(in, threshold))

\* git-reminder.js, plain version: never exits non-zero
gitReminderPlain(in) ==
  IF ~ in.inRepo THEN ReminderResult(0, "skipped", FALSE)
  ELSE ReminderResult(0, "checked", ReminderFinding(in, DefaultHoursThreshold))

\* ------------------------------------------------------------ the hook script
\* as HookScript, but the build line comes before the lowercase check
HookScriptBuildFirst == <<"check-gitignore", "build", "check-lowercase", "git-reminder">>

\* .husky/pre-commit as written by setup.js, curl-install.sh and the updaters
HookScript == <<"check-gitignore", "check-lowercase", "build", "git-reminder">>

\* ------------------------------------------- package.json scripts and hook files
\* what a package.json script stands for
\*   absent   no such script           check   node scripts/<a check script>
\*   runner   node scripts/build-react-apps.js
\*   command  a build command of the project itself
\*   alias    the project's `npm run build:dev`
\* the project's own scripts before anything is installed; an alias names a
\* script the project has
ProjectScripts ==
  {u \in [build : {"absent", "command", "alias"}, buildDev : {"absent", "command"}] :
     u.build = "alias" => u.buildDev = "command"}

\* update-package-json.js / install-to-project.js: scripts that are missing are added
installScripts(project) ==
  [build |-> project.build,
   buildDev |-> IF project.buildDev = "absent" THEN "runner" ELSE project.buildDev,
   checkGitignore |-> "check", checkLowercase |-> "absent", gitReminder |-> "absent"]

\* update.js: the check scripts are added, build:dev is removed
updateScripts(scripts) ==
  [build |-> scripts.build, buildDev |-> "absent",
   checkGitignore |-> "check", checkLowercase |-> "check", gitReminder |-> "check"]

InstalledScripts ==
  {installScripts(u) : u \in ProjectScripts}
    \cup {updateScripts(installScripts(u)) : u \in ProjectScripts}

\* the script `npm run <name>` starts
ScriptOf(scripts, name) ==
  CASE name = "build"           -> scripts.build
    [] name = "build:dev"       -> scripts.buildDev
    [] name = "check-gitignore" -> scripts.checkGitignore
    [] name = "check-lowercase" -> scripts.checkLowercase
    [] name = "git-reminder"    -> scripts.gitReminder

\* the hook files the installers, fixers and updaters write
HookFiles ==
  {<<"build:dev">>,
   <<"check-gitignore", "build:dev">>,
   <<"check-gitignore", "build">>,
   HookScript}

\* as buildScript, but the runner prefers the build:dev script
buildScriptDev == "build:dev"

\* the script build-react-apps.js runs in an app: `npm run build`
buildScript == "build"

\* the apps a run of build-react-apps.js builds, in order: the project root
\* and workspace members (whose package.json the installers do not touch);
\* a "memberDev" has a build:dev script of its own next to its build script
RunnerApps ==
  UNION {[1..n -> {"root", "member", "memberDev"}] : n \in 0..MaxMembers}

\* --------------------------------------------------- the staged-file gate
MaxStagedPath == 3   \* tokens of a staged path
MaxStagedFiles == 2  \* staged files of a commit

\* tokens of a staged path
\*   "/"    the separator          "n"   the text node_modules
\*   "xn"   a name that ends in node_modules, as my_node_modules
\*   ".js"  a name ending in .js, .jsx, .ts, .tsx, .vue or .svelte
\* paths git prints: no empty segment
GatePaths ==
  {p \in TextsOver({"/", "n", "xn", ".js"}, MaxStagedPath) :
     /\ p # <<>>
     /\ p[1] # "/" /\ p[Len(p)] # "/"
     /\ \A i \in 1..(Len(p) - 1) : ~ (p[i] = "/" /\ p[i + 1] = "/")}

RECURSIVE SubsetsUpTo(_, _)
SubsetsUpTo(S, k) ==
  IF k = 0 THEN {{}}
  ELSE LET smaller == SubsetsUpTo(S, k - 1)
       IN  smaller \cup {s \cup {p} : s \in smaller, p \in S}

\* stagedFiles.some(file => /\.(js|jsx|ts|tsx|vue|svelte)$/.test(file)
\*                          && !file.includes('node_modules/'))
hasJsChangesIn(stagedFiles) ==
  \E file \in stagedFiles :
    /\ file[Len(file)] = ".js"
    /\ ~ \E i \in 1..(Len(file) - 1) : file[i] \in {"n", "xn"} /\ file[i + 1] = "/"

\* ------------------------- installing, updating, fixing and uninstalling
MaxOps == 3          \* operations run on one project

\* a hook file: its lines as <<command, argument>>; <<".", "husky.sh">> is
\* the line `. "$(dirname "$0")/_/husky.sh"` that husky v10 deprecates
NoHook == [exists |-> FALSE, lines |-> <<>>]

\* hookContent.includes(text) for the text of a whole command
hookIncludes(hook, line) == \E i \in 1..Len(hook.lines) : hook.lines[i] = line

\* hooks a project has before anything is installed: none, its own test
\* hook (with or without the husky.sh line), a hook running its own
\* build:dev script through yarn
ProjectHooks ==
  {NoHook,
   [exists |-> TRUE, lines |-> <<<<"npm", "test">>>>],
   [exists |-> TRUE, lines |-> <<<<".", "husky.sh">>, <<"npm", "test">>>>],
   [exists |-> TRUE, lines |-> <<<<"yarn", "build:dev">>>>]}

\* install-to-project.js: hookScript
installHookScript == [exists |-> TRUE, lines |-> <<<<"npm run", "check-gitignore">>, <<"npm run", "build">>>>]

\* update.js: hookContent; curl-install.sh writes the same file
hookContent ==
  [exists |-> TRUE, lines |-> <<<<".", "husky.sh">>, <<"npm run", "check-gitignore">>, <<"npm run", "check-lowercase">>,
             <<"npm run", "build">>, <<"npm run", "git-reminder">>>>]

\* fix-husky-hooks.js: updatedHookContent
updatedHookContent == [exists |-> TRUE, lines |-> <<<<"npm run", "check-gitignore">>, <<"npm run", "build:dev">>>>]

\* package.json
\*   prepare   "absent", "own" (the project's command), "husky" (husky install)
\*   buildDev  "absent", "command" (the project's command), "runner"
\*   checkGitignore, checkLowercase, gitReminder   "absent", "check"
\*   lint      a script of the project the tool has no use for: "absent",
\*             "plain", "braces" (its command has a `}`, as eslint "src/**/*.{js,jsx}"),
\*             "broken" (the text of the entry was cut by an edit)
\*   valid     the file parses as JSON
ProjectPackages ==
  [prepare : {"absent", "own"}, buildDev : {"absent", "command"},
   checkGitignore : {"absent"}, checkLowercase : {"absent"}, gitReminder : {"absent"},
   lint : {"absent", "plain", "braces"}, valid : {TRUE}]

\* update-package-json.js and install-to-project.js: JSON.parse, prepare is
\* set, build:dev and check-gitignore are added when missing, JSON.stringify
updatePackageJson(pkg) ==
  IF ~ pkg.valid THEN pkg
  ELSE [pkg EXCEPT !.prepare = "husky",
                   !.buildDev = IF @ = "absent" THEN "runner" ELSE @,
                   !.checkGitignore = "check"]

\* curl-install.sh: if the file does not mention the script,
\* sed '/"scripts":/,/}/s/}/,\n "<name>": "..."\n }/' puts the entry before
\* the first `}` after the "scripts": line
sedAddScript(pkg, name) ==
  IF pkg[name] # "absent" THEN pkg
  ELSE IF pkg.lint \in {"braces", "broken"}
    THEN [pkg EXCEPT !.lint = "broken", !.valid = FALSE]
  ELSE IF ~ pkg.valid THEN pkg
  ELSE [pkg EXCEPT ![name] = "check"]

\* update.js: the three check scripts are added when missing, build:dev is deleted
updateJsScripts(pkg) ==
  IF ~ pkg.valid THEN pkg
  ELSE [pkg EXCEPT !.checkGitignore = "check", !.checkLowercase = "check",
                   !.gitReminder = "check", !.buildDev = "absent"]

\* uninstall.mjs and curl-uninstall.sh: check-gitignore and build:dev are deleted
removeScripts(pkg) ==
  IF ~ pkg.valid THEN pkg
  ELSE [pkg EXCEPT !.checkGitignore = "absent", !.buildDev = "absent"]

\* fix-husky-hooks.js: a hook file with a deprecated line is replaced
fixHook(hook) ==
  IF hook.exists /\ hookIncludes(hook, <<".", "husky.sh">>) THEN updatedHookContent ELSE hook

\* uninstall.mjs: a hook file with one of the two commands is deleted
removeHook(hook) ==
  IF hook.exists /\ (hookIncludes(hook, <<"npm run", "check-gitignore">>)
                       \/ hookIncludes(hook, <<"npm run", "build:dev">>))
    THEN NoHook ELSE hook

\* curl-uninstall.sh: grep -q "check-gitignore\|build:dev", one of the
\* two words anywhere on a line
removeHookGrep(hook) ==
  IF hook.exists /\ \E i \in 1..Len(hook.lines) :
                      hook.lines[i][2] \in {"check-gitignore", "build:dev"}
    THEN NoHook ELSE hook

\* the package.json script `npm run <name>` needs
scriptPresent(pkg, name) ==
  CASE name = "build:dev"       -> pkg.buildDev # "absent"
    [] name = "check-gitignore" -> pkg.checkGitignore # "absent"
    [] name = "check-lowercase" -> pkg.checkLowercase # "absent"
    [] name = "git-reminder"    -> pkg.gitReminder # "absent"
    [] OTHER                    -> TRUE

\* -------------------------------------------------------------------- state
VARIABLES
  errexit,           \* the shell running the hook has `-e` set (husky's runner) or not (git runs the file)
  configLoad,        \* outcome of loading hooks-config.js in this project
  gitignoreVersion,  \* which check-gitignore.js is installed
  gitignoreExists,   \* .gitignore exists
  gitignoreContent,  \* text of .gitignore
  writes,            \* number of writes of .gitignore so far
  adds,              \* number of successful `git add .gitignore` so far
  audits,            \* number of check-gitignore runs so far
  lastAudit,         \* what the latest check-gitignore run met and did
  idx,               \* position in HookScript
  phase,             \* "shell", "running", "exited", "done"; "standalone" outside a hook run
  started,           \* commands started so far, in order
  exits,             \* exit codes of the commands that have exited, in order
  hookExit,          \* exit code of the hook script, -1 while it runs
  blocking,          \* checks that ended with a violation while enabled and enforcing
  obs,               \* what the latest command met and did
  scan,              \* buckets of the latest path-by-path lowercase scan
  ws,                \* the workspace build loop of build-react-apps.js
  run,               \* the nested `npm run` invocations of a hook run
  rem,               \* what a git-reminder run on its own met and did
  gate,              \* what a run of the configurable build runner met at its staged-file gate
  proj               \* a project's package.json and hook files under the installers

vars == <<errexit, configLoad, gitignoreVersion, gitignoreExists, gitignoreContent,
          writes, adds, audits, lastAudit, idx, phase, started, exits, hookExit,
          blocking, obs, scan, ws, run, rem, gate, proj>>

fileVars == <<gitignoreExists, gitignoreContent, writes, adds, audits, lastAudit>>
envVars == <<errexit, configLoad, gitignoreVersion, scan, ws, run, rem, gate, proj>>

\* the variables of a hook run, left alone by the scripts run on their own
hookVars == <<errexit, configLoad, gitignoreVersion, fileVars, idx, started, exits,
              hookExit, blocking, obs>>

\* no workspace run
\*   stage    "none", "start", "loop", "done"
\*   apps     the members selected for building, in order
\*   pos      position in apps of the next member to build
\*   running  directories of the members whose build runs
\*   begun    directories whose build was started, in order
\*   built    directories whose build succeeded, in order
\*   reported directories named in a failure report, in order
NoWs ==
  [stage |-> "none", version |-> "none", enforce |-> FALSE, members |-> <<>>, staged |-> {},
   apps |-> <<>>, pos |-> 1, running |-> {}, begun |-> <<>>, built |-> <<>>,
   reported |-> <<>>, exit |-> -1]

\* no hook run followed script by script
\*   hook     the lines of the hook file      scripts  package.json scripts
\*   apps     the apps a runner builds        line     position in hook
\*   stack    the scripts running, outermost first: name, kind, apps left
\*   calls    scripts started so far          status   "none", "run", "done"
\*   builds   what the runner did for each app: the app, whether its
\*            package.json has a build:dev script, the script run ("none": no build)
NoRun ==
  [hook |-> <<>>, scripts |-> installScripts([build |-> "absent", buildDev |-> "absent"]),
   apps |-> <<>>, line |-> 1, stack |-> <<>>, calls |-> 0, status |-> "none",
   builds |-> <<>>]

\* no run of the build runner
NoGate == [staged |-> {}, entry |-> NoEntry, how |-> "none", exit |-> 0, attempted |-> 0]

\* a project nothing was run on
\*   initial    package.json before the first operation
\*   n          operations run so far       last   the latest operation
\*   confirmed  the latest operation was not declined at its prompt
\*   history    "fresh", "installed" (one install), "uninstalled" (one
\*              install, then one confirmed uninstall), "mixed"
NoProj ==
  LET pkg == [prepare |-> "absent", buildDev |-> "absent", checkGitignore |-> "absent",
              checkLowercase |-> "absent", gitReminder |-> "absent", lint |-> "absent",
              valid |-> TRUE]
  IN  [initial |-> pkg, pkg |-> pkg, preCommit |-> NoHook, prePush |-> NoHook,
       n |-> 0, last |-> "none", confirmed |-> FALSE, history |-> "fresh"]

\* no git-reminder run
NoRem ==
  [version |-> "none", entry |-> NoEntry, in |-> ReminderInput(FALSE, FALSE, -1, 0, FALSE, 0),
   how |-> "none", exit |-> 0, finding |-> FALSE, stale |-> FALSE,
   staged |-> FALSE, unstaged |-> FALSE]

NoScan == [file |-> <<>>, code |-> FALSE, readable |-> FALSE, targets |-> {},
           fileNames |-> {}, imports |-> {}]

NoAudit ==
  [beforeExists |-> FALSE, beforeContent |-> <<>>, missing |-> <<>>, exit |-> 0,
   wrote |-> FALSE, added |-> FALSE, writeFailed |-> FALSE, addFailed |-> FALSE]

NoObs ==
  [check |-> "none", version |-> "none", entry |-> NoEntry, how |-> "none", exit |-> 0,
   finding |-> FALSE, writeFailed |-> FALSE, wrote |-> FALSE, added |-> FALSE,
   attempted |-> 0]

\* a .gitignore holding every pattern of every version's list
CompleteContent == <<"n", "/", NL, "e", NL, "e", "l", NL, "d", NL>>

\* the entries hooks-config.js can hold for a hook, given how loading ended
EntriesFor(load) == IF load = "loaded" THEN Entries ELSE {NoEntry}

\* hooks-config.js asks for the check to block: the entry is enabled and sets
\* enforce: true, or there is no usable config file and the default is true
ConfigEnforces(check, load, entry) ==
  IF load = "loaded"
    THEN entry.present /\ entry.enabled # "false" /\ entry.enforce = "true"
    ELSE load \in {"absent", "throws"} /\ DefaultEntry(check).enforce = "true"

Blocking(check, load, entry, violation) ==
  IF violation /\ ConfigEnforces(check, load, entry) THEN blocking \cup {check} ELSE blocking

\* --------------------------------------------------------------------- Init
InitHook ==
  /\ phase = "shell"
  /\ idx = 1
  /\ started = <<>>
  /\ exits = <<>>
  /\ hookExit = -1
  /\ blocking = {}
  /\ obs = NoObs
  /\ writes = 0
  /\ adds = 0
  /\ audits = 0
  /\ lastAudit = NoAudit
  /\ scan = NoScan
  /\ run = NoRun
  /\ rem = NoRem
  /\ gate = NoGate
  /\ proj = NoProj
  /\ ws = NoWs

Init ==
  /\ errexit \in BOOLEAN
  /\ configLoad \in ConfigLoads
  /\ gitignoreVersion \in GitignoreVersions
  /\ \/ gitignoreExists = FALSE /\ gitignoreContent = <<>>
     \/ gitignoreExists = TRUE /\ gitignoreContent \in {<<"e", "l", NL>>, CompleteContent}
  /\ InitHook

\* ------------------------------------------------------------------ actions
\* the shell starts the command at position idx
StartCheck ==
  /\ phase = "shell"
  /\ phase' = "running"
  /\ started' = Append(started, HookScript[idx])
  /\ obs' = NoObs
  /\ UNCHANGED <<envVars, fileVars, idx, exits, hookExit, blocking>>

\* one run of the installed check-gitignore.js on the project's .gitignore
GitignoreRun ==
  \E entry \in EntriesFor(configLoad), writeFails \in BOOLEAN, addFails \in BOOLEAN :
   \E r \in {CheckGitignore(gitignoreVersion, configLoad, entry,
                           gitignoreExists, gitignoreContent, writeFails, addFails)} :
    LET writeFailed == r.exit = 1 /\ gitignoreVersion # "configurable"
    IN  /\ gitignoreExists' = r.exists
        /\ gitignoreContent' = r.content
        /\ writes' = writes + (IF r.wrote THEN 1 ELSE 0)
        /\ adds' = adds + (IF r.added THEN 1 ELSE 0)
        /\ audits' = audits + 1
        /\ lastAudit' = [beforeExists |-> gitignoreExists, beforeContent |-> gitignoreContent,
                         missing |-> r.missing, exit |-> r.exit, wrote |-> r.wrote,
                         added |-> r.added, writeFailed |-> writeFailed,
                         addFailed |-> r.wrote /\ gitignoreVersion = "append" /\ addFails]
        /\ obs' = [check |-> "gitignore", version |-> gitignoreVersion, entry |-> entry,
                   how |-> r.how, exit |-> r.exit, finding |-> r.missing # <<>>,
                   writeFailed |-> writeFailed, wrote |-> r.wrote, added |-> r.added,
                   attempted |-> 0]
        /\ blocking' = Blocking("gitignore", configLoad, entry,
                                writeFailed \/ (gitignoreVersion = "configurable" /\ r.missing # <<>>))

RunCheckGitignore ==
  /\ phase = "running"
  /\ HookScript[idx] = "check-gitignore"
  /\ GitignoreRun
  /\ exits' = Append(exits, obs'.exit)
  /\ phase' = "exited"
  /\ UNCHANGED <<envVars, idx, started, hookExit>>

RunCheckLowercase ==
  /\ phase = "running"
  /\ HookScript[idx] = "check-lowercase"
  /\ \E version \in LowercaseVersions, entry \in EntriesFor(configLoad),
        stagedFiles \in SUBSET StagedKinds :
       /\ obs' = [NoObs EXCEPT !.check = "lowercase", !.version = version, !.entry = entry,
                              !.how = IF stagedFiles = {} THEN "skipped" ELSE "checked",
                              !.exit = LowercaseExit(version, stagedFiles),
                              !.finding = hasErrors(stagedFiles)]
       /\ blocking' = Blocking("lowercase", configLoad, entry, hasErrors(stagedFiles))
  /\ exits' = Append(exits, obs'.exit)
  /\ phase' = "exited"
  /\ UNCHANGED <<envVars, fileVars, idx, started, hookExit>>

BuildDone(version, entry, r) ==
  /\ obs' = [NoObs EXCEPT !.check = "build", !.version = version, !.entry = entry,
                         !.how = r.how, !.exit = r.exit, !.finding = r.failed,
                         !.attempted = r.attempted]
  /\ blocking' = Blocking("build", configLoad, entry, r.failed)
  /\ exits' = Append(exits, r.exit)
  /\ phase' = "exited"
  /\ UNCHANGED <<envVars, fileVars, idx, started, hookExit>>

RunBuildDirect ==
  /\ phase = "running"
  /\ HookScript[idx] = "build"
  /\ \E entry \in EntriesFor(configLoad), root \in Roots :
       BuildDone("direct", entry, buildDirect(BuildInput(TRUE, "none", FALSE, root, <<>>)))

RunBuildReactApps ==
  /\ phase = "running"
  /\ HookScript[idx] = "build"
  /\ \E entry \in EntriesFor(configLoad), members \in MemberLists :
       BuildDone("allReact", entry, buildReactApps(BuildInput(TRUE, "none", FALSE, "buildOk", members)))

\* the situations the configurable runner tells apart: no staged source
\* file, a throw before or inside project detection, a single project, a workspace
ConfigurableBuildInputs ==
  {BuildInput(FALSE, "none", FALSE, "buildOk", <<>>),
   BuildInput(TRUE, "outer", FALSE, "buildOk", <<>>),
   BuildInput(TRUE, "inner", FALSE, "buildOk", <<>>)}
    \cup {BuildInput(TRUE, "none", FALSE, root, <<>>) : root \in Roots}
    \cup {BuildInput(TRUE, "none", TRUE, "noBuildScript", members) : members \in MemberLists}

RunBuildConfigurable ==
  /\ phase = "running"
  /\ HookScript[idx] = "build"
  /\ \E entry \in EntriesFor(configLoad), in \in ConfigurableBuildInputs :
       BuildDone("configurable", entry, buildConfigurable(configLoad, entry, in))

ReminderDone(version, entry, r) ==
  /\ obs' = [NoObs EXCEPT !.check = "gitReminder", !.version = version, !.entry = entry,
                         !.how = r.how, !.exit = r.exit, !.finding = r.finding]
  /\ blocking' = Blocking("gitReminder", configLoad, entry, r.finding)
  /\ exits' = Append(exits, r.exit)
  /\ phase' = "exited"
  /\ UNCHANGED <<envVars, fileVars, idx, started, hookExit>>

\* the situations git-reminder tells apart when a hook starts it (inside a
\* repository): a clean or dirty tree, the age of the last commit, and an
\* upstream that cannot be fetched, is level, or is ahead
ReminderInputs(load) ==
  {ReminderInput(TRUE, changes, minutes, up[1], up[2], setting) :
     changes \in BOOLEAN, minutes \in ElapsedMinutes,
     up \in {<<0, TRUE>>, <<0, FALSE>>, <<1, FALSE>>},
     setting \in IF load = "loaded" THEN Thresholds ELSE {0}}

RunGitReminder ==
  /\ phase = "running"
  /\ HookScript[idx] = "git-reminder"
  /\ \E entry \in EntriesFor(configLoad), in \in ReminderInputs(configLoad) :
       \/ ReminderDone("configurable", entry, gitReminderConfigurable(configLoad, entry, in))
       \/ ReminderDone("plain", entry, gitReminderPlain(in))

\* sh -e: the shell exits with the status of the command that failed
ShellAbort ==
  /\ phase = "exited"
  /\ errexit /\ exits[Len(exits)] # 0
  /\ phase' = "done"
  /\ hookExit' = exits[Len(exits)]
  /\ UNCHANGED <<envVars, fileVars, idx, started, exits, blocking, obs>>

\* the shell goes on to the next command line
ShellNext ==
  /\ phase = "exited"
  /\ ~ (errexit /\ exits[Len(exits)] # 0)
  /\ idx < Len(HookScript)
  /\ idx' = idx + 1
  /\ phase' = "shell"
  /\ UNCHANGED <<envVars, fileVars, started, exits, hookExit, blocking, obs>>

\* end of the script: its exit status is that of the last command
ShellExit ==
  /\ phase = "exited"
  /\ ~ (errexit /\ exits[Len(exits)] # 0)
  /\ idx = Len(HookScript)
  /\ phase' = "done"
  /\ hookExit' = exits[Len(exits)]
  /\ UNCHANGED <<envVars, fileVars, idx, started, exits, blocking, obs>>

Next ==
  \/ StartCheck
  \/ RunCheckGitignore
  \/ RunCheckLowercase
  \/ RunBuildDirect
  \/ RunBuildReactApps
  \/ RunBuildConfigurable
  \/ RunGitReminder
  \/ ShellAbort
  \/ ShellNext
  \/ ShellExit

Spec == Init /\ [][Next]_vars

\* --------------------------------------- check-gitignore run on its own, twice
InitAudit ==
  /\ errexit = FALSE
  /\ configLoad = "absent"
  /\ gitignoreVersion \in GitignoreVersions
  /\ \/ gitignoreExists = FALSE /\ gitignoreContent = <<>>
     \/ gitignoreExists = TRUE /\ gitignoreContent \in TextsUpTo(MaxLen)
  /\ phase = "standalone"
  /\ idx = 1
  /\ started = <<>>
  /\ exits = <<>>
  /\ hookExit = -1
  /\ blocking = {}
  /\ obs = NoObs
  /\ writes = 0
  /\ adds = 0
  /\ audits = 0
  /\ lastAudit = NoAudit
  /\ scan = NoScan
  /\ run = NoRun
  /\ rem = NoRem
  /\ gate = NoGate
  /\ proj = NoProj
  /\ ws = NoWs

\* `npm run check-gitignore` from the command line
StandaloneAudit ==
  /\ phase = "standalone"
  /\ audits < MaxAudits
  /\ GitignoreRun
  /\ UNCHANGED <<envVars, idx, phase, started, exits, hookExit>>

NextAudit == StandaloneAudit

SpecAudit == InitAudit /\ [][NextAudit]_vars

\* ------------------------------- check-lowercase run on one staged file
InitLowercase ==
  /\ errexit = FALSE
  /\ configLoad = "absent"
  /\ gitignoreVersion = "append"
  /\ gitignoreExists = FALSE
  /\ gitignoreContent = <<>>
  /\ phase = "standalone"
  /\ idx = 1
  /\ started = <<>>
  /\ exits = <<>>
  /\ hookExit = -1
  /\ blocking = {}
  /\ obs = NoObs
  /\ writes = 0
  /\ adds = 0
  /\ audits = 0
  /\ lastAudit = NoAudit
  /\ scan = NoScan
  /\ run = NoRun
  /\ rem = NoRem
  /\ gate = NoGate
  /\ proj = NoProj
  /\ ws = NoWs

\* a staged file of any path whose text holds no import
ScanFileName ==
  /\ phase = "standalone"
  /\ \E file \in StagedPaths, code \in BOOLEAN :
       scan' = LowercaseScan(file, code, TRUE, {})
  /\ phase' = "done"
  /\ UNCHANGED <<hookVars, ws, run, rem, gate, proj>>

\* a staged file (scanned, or under node_modules) whose text holds one or two imports
ScanImports ==
  /\ phase = "standalone"
  /\ \E file \in {<<"a">>, <<"A">>, <<"n", "/", "a">>}, code \in BOOLEAN, readable \in BOOLEAN,
        t1 \in ImportTargets, t2 \in {<<"a">>, <<".", "/", "A">>} :
       scan' = LowercaseScan(file, code, readable, {t1, t2})
  /\ phase' = "done"
  /\ UNCHANGED <<hookVars, ws, run, rem, gate, proj>>

NextLowercase == ScanFileName \/ ScanImports

SpecLowercase == InitLowercase /\ [][NextLowercase]_vars

\* ---------------------------- build-react-apps.js run on its own in a workspace
InitWorkspace ==
  /\ errexit = FALSE
  /\ configLoad = "absent"
  /\ gitignoreVersion = "append"
  /\ gitignoreExists = FALSE
  /\ gitignoreContent = <<>>
  /\ phase = "standalone"
  /\ idx = 1
  /\ started = <<>>
  /\ exits = <<>>
  /\ hookExit = -1
  /\ blocking = {}
  /\ obs = NoObs
  /\ writes = 0
  /\ adds = 0
  /\ audits = 0
  /\ lastAudit = NoAudit
  /\ scan = NoScan
  /\ run = NoRun
  /\ rem = NoRem
  /\ gate = NoGate
  /\ proj = NoProj
  /\ \E version \in {"configurable", "allReact"}, enforce \in BOOLEAN,
        members \in WorkspaceLists, staged \in StagedSets :
       ws = [NoWs EXCEPT !.stage = "start", !.version = version, !.enforce = enforce,
                         !.members = members, !.staged = staged]

\* the filter before the loop: appsToBuild / findReactApps
SelectApps ==
  /\ ws.stage = "start"
  /\ LET apps == IF ws.version = "configurable"
                   THEN appsToBuild(WithAffected(ws.members, ws.staged))
                   ELSE SelectSeq(WithAffected(ws.members, ws.staged), LAMBDA m : m.hasBuild)
     IN  ws' = [ws EXCEPT !.apps = apps,
                          !.stage = IF apps = <<>> THEN "done" ELSE "loop",
                          !.exit = IF apps = <<>> THEN 0 ELSE -1]
  /\ UNCHANGED <<hookVars, phase, scan, run, rem, gate, proj>>

\* execSync('npm run build', {cwd: appPath}) starts the next member's build
StartMemberBuild ==
  /\ ws.stage = "loop"
  /\ ws.pos <= Len(ws.apps)
  /\ CanStartBuild(ws.running)
  /\ ws' = [ws EXCEPT !.running = ws.running \cup {ws.apps[ws.pos].path},
                       !.begun = Append(ws.begun, ws.apps[ws.pos].path),
                       !.pos = ws.pos + 1]
  /\ UNCHANGED <<hookVars, phase, scan, run, rem, gate, proj>>

\* the build exits with success
MemberBuildSucceeds ==
  /\ ws.stage = "loop"
  /\ \E i \in 1..Len(ws.apps) :
       /\ ws.apps[i].path \in ws.running
       /\ ws.apps[i].ok
       /\ ws' = [ws EXCEPT !.running = ws.running \ {ws.apps[i].path},
                            !.built = Append(ws.built, ws.apps[i].path)]
  /\ UNCHANGED <<hookVars, phase, scan, run, rem, gate, proj>>

\* the build exits with a failure: the catch block reports the member; the
\* configurable runner leaves the loop (process.exit(1) or return), the
\* all-React-apps runner notes the failure and goes on
MemberBuildFails ==
  /\ ws.stage = "loop"
  /\ \E i \in 1..Len(ws.apps) :
       /\ ws.apps[i].path \in ws.running
       /\ ~ ws.apps[i].ok
       /\ ws' = [ws EXCEPT !.running = ws.running \ {ws.apps[i].path},
                            !.reported = Append(ws.reported, ws.apps[i].path),
                            !.stage = IF ws.version = "configurable" THEN "done" ELSE "loop",
                            !.exit = IF ws.version = "configurable"
                                       THEN (IF ws.enforce THEN 1 ELSE 0) ELSE -1]
  /\ UNCHANGED <<hookVars, phase, scan, run, rem, gate, proj>>

\* the loop has gone through every selected member
EndOfLoop ==
  /\ ws.stage = "loop"
  /\ ws.pos > Len(ws.apps)
  /\ ws.running = {}
  /\ ws' = [ws EXCEPT !.stage = "done",
                       !.exit = IF ws.version = "allReact" /\ ws.reported # <<>> THEN 1 ELSE 0]
  /\ UNCHANGED <<hookVars, phase, scan, run, rem, gate, proj>>

NextWorkspace ==
  \/ SelectApps
  \/ StartMemberBuild
  \/ MemberBuildSucceeds
  \/ MemberBuildFails
  \/ EndOfLoop

SpecWorkspace == InitWorkspace /\ [][NextWorkspace]_vars

\* ------------------------------------ a hook run, one `npm run` after another
MaxDepth == 5        \* nested scripts the model follows

InitInvocations ==
  /\ errexit \in BOOLEAN
  /\ configLoad = "absent"
  /\ gitignoreVersion = "append"
  /\ gitignoreExists = FALSE
  /\ gitignoreContent = <<>>
  /\ phase = "standalone"
  /\ idx = 1
  /\ started = <<>>
  /\ exits = <<>>
  /\ hookExit = -1
  /\ blocking = {}
  /\ obs = NoObs
  /\ writes = 0
  /\ adds = 0
  /\ audits = 0
  /\ lastAudit = NoAudit
  /\ scan = NoScan
  /\ ws = NoWs
  /\ rem = NoRem
  /\ gate = NoGate
  /\ proj = NoProj
  /\ \E hook \in HookFiles, scripts \in InstalledScripts, apps \in RunnerApps :
       run = [NoRun EXCEPT !.hook = hook, !.scripts = scripts, !.apps = apps, !.status = "run"]

Frame(name, kind, apps) == [name |-> name, kind |-> kind, apps |-> apps]

\* `npm run name` with the project root as working directory
Started(name) ==
  LET kind == ScriptOf(run.scripts, name)
  IN  Frame(name, kind, IF kind = "runner" THEN run.apps
                        ELSE IF kind = "alias" THEN <<"root">> ELSE <<>>)

\* the shell starts the script of the next hook line
HookLineStarts ==
  /\ run.status = "run"
  /\ run.stack = <<>>
  /\ run.line <= Len(run.hook)
  /\ ScriptOf(run.scripts, run.hook[run.line]) # "absent"
  /\ run' = [run EXCEPT !.stack = <<Started(run.hook[run.line])>>, !.calls = run.calls + 1]
  /\ UNCHANGED <<hookVars, phase, scan, ws, rem, gate, proj>>

\* npm error Missing script: the line fails at once
HookLineMissing ==
  /\ run.status = "run"
  /\ run.stack = <<>>
  /\ run.line <= Len(run.hook)
  /\ ScriptOf(run.scripts, run.hook[run.line]) = "absent"
  /\ run' = IF errexit THEN [run EXCEPT !.status = "done"]
                       ELSE [run EXCEPT !.line = run.line + 1]
  /\ UNCHANGED <<hookVars, phase, scan, ws, rem, gate, proj>>

\* the innermost script starts `npm run` for its next app: the runner runs
\* buildScript in the app's directory, an alias runs build:dev
ScriptStartsScript ==
  /\ run.status = "run"
  /\ run.stack # <<>>
  /\ Len(run.stack) < MaxDepth
  /\ LET top == run.stack[Len(run.stack)]
         rest == SubSeq(run.stack, 1, Len(run.stack) - 1)
         name == IF top.kind = "runner" THEN buildScript ELSE "build:dev"
         child == IF top.apps # <<>> /\ Head(top.apps) \in {"member", "memberDev"}
                    THEN Frame(name, "command", <<>>)
                    ELSE Started(name)
         hasBuild == top.apps # <<>> /\ (Head(top.apps) = "root" => run.scripts.build # "absent")
         hasBuildDev == top.apps # <<>> /\ IF Head(top.apps) = "root"
                                            THEN run.scripts.buildDev # "absent"
                                            ELSE Head(top.apps) = "memberDev"
         skipped == IF top.kind = "runner" THEN ~ hasBuild ELSE child.kind = "absent"
     IN  /\ top.apps # <<>>
         /\ run' = [run EXCEPT
                      !.stack = IF skipped \/ child.kind = "absent"
                                  THEN Append(rest, [top EXCEPT !.apps = Tail(top.apps)])
                                  ELSE Append(rest, [top EXCEPT !.apps = Tail(top.apps)]) \o <<child>>,
                      !.calls = run.calls + (IF skipped \/ child.kind = "absent" THEN 0 ELSE 1),
                      !.builds = IF top.kind = "runner"
                                   THEN Append(run.builds,
                                               [app |-> Head(top.apps), hasBuildDev |-> hasBuildDev,
                                                script |-> IF skipped THEN "none" ELSE name])
                                   ELSE run.builds]
  /\ UNCHANGED <<hookVars, phase, scan, ws, rem, gate, proj>>

\* the innermost script has nothing left to start and exits
ScriptExits ==
  /\ run.status = "run"
  /\ run.stack # <<>>
  /\ run.stack[Len(run.stack)].apps = <<>>
  /\ run' = [run EXCEPT !.stack = SubSeq(run.stack, 1, Len(run.stack) - 1),
                        !.line = IF Len(run.stack) = 1 THEN run.line + 1 ELSE run.line]
  /\ UNCHANGED <<hookVars, phase, scan, ws, rem, gate, proj>>

\* the hook file has no further line
HookEnds ==
  /\ run.status = "run"
  /\ run.stack = <<>>
  /\ run.line > Len(run.hook)
  /\ run' = [run EXCEPT !.status = "done"]
  /\ UNCHANGED <<hookVars, phase, scan, ws, rem, gate, proj>>

NextInvocations ==
  \/ HookLineStarts
  \/ HookLineMissing
  \/ ScriptStartsScript
  \/ ScriptExits
  \/ HookEnds

\* every started process keeps running until it exits
SpecInvocations == InitInvocations /\ [][NextInvocations]_vars /\ WF_vars(NextInvocations)

\* ----------------------------------- git-reminder run on its own, anywhere
InitReminder ==
  /\ errexit = FALSE
  /\ configLoad \in ConfigLoads
  /\ gitignoreVersion = "append"
  /\ gitignoreExists = FALSE
  /\ gitignoreContent = <<>>
  /\ phase = "standalone"
  /\ idx = 1
  /\ started = <<>>
  /\ exits = <<>>
  /\ hookExit = -1
  /\ blocking = {}
  /\ obs = NoObs
  /\ writes = 0
  /\ adds = 0
  /\ audits = 0
  /\ lastAudit = NoAudit
  /\ scan = NoScan
  /\ ws = NoWs
  /\ run = NoRun
  /\ rem = NoRem
  /\ gate = NoGate
  /\ proj = NoProj

\* what a run started from the command line can meet: the situations of a
\* hook run, and a directory that is no git repository (or no git at all)
StandaloneReminderInputs(load) ==
  ReminderInputs(load) \cup {ReminderInput(FALSE, FALSE, -1, 0, FALSE, 0)}

\* the index and working tree behind the status output a run reads: staged
\* changes and unstaged or untracked files
ReminderRan(version, entry, in, r, stale) ==
  /\ \E tree \in {t \in [staged : BOOLEAN, unstaged : BOOLEAN] :
                     IF in.inRepo THEN in.changes = statusPorcelain(t.staged, t.unstaged)
                     ELSE ~ t.staged /\ ~ t.unstaged} :
       rem' = [version |-> version, entry |-> entry, in |-> in, how |-> r.how,
               exit |-> r.exit, finding |-> r.finding, stale |-> r.how = "checked" /\ stale,
               staged |-> tree.staged, unstaged |-> tree.unstaged]
  /\ phase' = "done"
  /\ UNCHANGED <<hookVars, scan, ws, run, gate, proj>>

\* `npm run git-reminder` with git-reminder.js reading hooks-config.js
RunReminderConfigurable ==
  /\ phase = "standalone"
  /\ \E entry \in EntriesFor(configLoad), in \in StandaloneReminderInputs(configLoad) :
       ReminderRan("configurable", entry, in, gitReminderConfigurable(configLoad, entry, in),
                   Stale(in, configuredThreshold(configLoad, in)))

\* `npm run git-reminder` with the git-reminder.js that only prints reminders
RunReminderPlain ==
  /\ phase = "standalone"
  /\ \E entry \in EntriesFor(configLoad), in \in StandaloneReminderInputs(configLoad) :
       ReminderRan("plain", entry, in, gitReminderPlain(in), Stale(in, DefaultHoursThreshold))

NextReminder == RunReminderConfigurable \/ RunReminderPlain

SpecReminder == InitReminder /\ [][NextReminder]_vars

\* ------------------------- the configurable build runner at its staged-file gate
InitGate ==
  /\ errexit = FALSE
  /\ configLoad \in {"absent", "loaded"}
  /\ gitignoreVersion = "append"
  /\ gitignoreExists = FALSE
  /\ gitignoreContent = <<>>
  /\ phase = "standalone"
  /\ idx = 1
  /\ started = <<>>
  /\ exits = <<>>
  /\ hookExit = -1
  /\ blocking = {}
  /\ obs = NoObs
  /\ writes = 0
  /\ adds = 0
  /\ audits = 0
  /\ lastAudit = NoAudit
  /\ scan = NoScan
  /\ ws = NoWs
  /\ run = NoRun
  /\ rem = NoRem
  /\ gate = NoGate
  /\ proj = NoProj

\* `npm run build:dev` with the configurable build-react-apps.js: the
\* staged files (`git diff --cached --name-only`, as a set of paths) and
\* what follows the gate in a single project: detection throws, or one of
\* the root package.json situations
RunGate ==
  /\ phase = "standalone"
  /\ \E stagedFiles \in SubsetsUpTo(GatePaths, MaxStagedFiles),
        entry \in EntriesFor(configLoad),
        rest \in {BuildInput(TRUE, "inner", FALSE, "buildOk", <<>>)}
                   \cup {BuildInput(TRUE, "none", FALSE, root, <<>>) : root \in Roots} :
       \E r \in {buildConfigurable(configLoad, entry,
                                   [rest EXCEPT !.hasJsChanges = hasJsChangesIn(stagedFiles)])} :
         gate' = [staged |-> stagedFiles, entry |-> entry, how |-> r.how,
                  exit |-> r.exit, attempted |-> r.attempted]
  /\ phase' = "done"
  /\ UNCHANGED <<hookVars, scan, ws, run, rem, proj>>

SpecGate == InitGate /\ [][RunGate]_vars

\* ------------------------- installers, updaters, fixers and uninstallers on a project
InitInstall ==
  /\ errexit = FALSE
  /\ configLoad = "absent"
  /\ gitignoreVersion = "append"
  /\ gitignoreExists = FALSE
  /\ gitignoreContent = <<>>
  /\ phase = "standalone"
  /\ idx = 1
  /\ started = <<>>
  /\ exits = <<>>
  /\ hookExit = -1
  /\ blocking = {}
  /\ obs = NoObs
  /\ writes = 0
  /\ adds = 0
  /\ audits = 0
  /\ lastAudit = NoAudit
  /\ scan = NoScan
  /\ ws = NoWs
  /\ run = NoRun
  /\ rem = NoRem
  /\ gate = NoGate
  /\ \E pkg \in ProjectPackages, preCommit \in ProjectHooks, prePush \in ProjectHooks :
       proj = [NoProj EXCEPT !.initial = pkg, !.pkg = pkg,
                             !.preCommit = preCommit, !.prePush = prePush]

\* the end of an operation
Ran(op, confirmed, pkg, preCommit, prePush) ==
  /\ phase = "standalone"
  /\ proj.n < MaxOps
  /\ proj' = [proj EXCEPT !.pkg = pkg, !.preCommit = preCommit, !.prePush = prePush,
                          !.n = @ + 1, !.last = op, !.confirmed = confirmed,
                          !.history =
                            IF @ = "fresh" /\ op \in {"install-to-project", "curl-install"}
                              THEN "installed"
                            ELSE IF @ = "installed" /\ op \in {"uninstall", "curl-uninstall"}
                              THEN IF confirmed THEN "uninstalled" ELSE "installed"
                            ELSE "mixed"]
  /\ UNCHANGED <<hookVars, phase, scan, ws, run, rem, gate>>

\* install-to-project.js: leaves with exit code 1 when package.json does not parse
InstallToProject ==
  \E hookType \in {"pre-commit", "pre-push"} :
    IF ~ proj.pkg.valid
      THEN Ran("install-to-project", TRUE, proj.pkg, proj.preCommit, proj.prePush)
      ELSE Ran("install-to-project", TRUE, updatePackageJson(proj.pkg),
               IF hookType = "pre-commit" THEN installHookScript ELSE proj.preCommit,
               IF hookType = "pre-push" THEN installHookScript ELSE proj.prePush)

\* curl-install.sh: update-package-json.js, the three sed edits, the pre-commit hook
CurlInstall ==
  \E pkg \in {sedAddScript(sedAddScript(sedAddScript(updatePackageJson(proj.pkg), "checkGitignore"),
                                        "checkLowercase"), "gitReminder")} :
    Ran("curl-install", TRUE, pkg, hookContent, proj.prePush)

\* update.js: the scripts, then the hook in use (pre-push if that file exists)
UpdateJs ==
  \E currentHookType \in {IF proj.prePush.exists THEN "pre-push" ELSE "pre-commit"} :
    Ran("update", TRUE, updateJsScripts(proj.pkg),
        IF currentHookType = "pre-commit" THEN hookContent ELSE proj.preCommit,
        IF currentHookType = "pre-push" THEN hookContent ELSE proj.prePush)

\* fix-husky-hooks.js: leaves with exit code 1 without a .husky directory;
\* the hooks are fixed, then check-gitignore is added when missing
FixHuskyHooks ==
  \E huskyDir \in IF proj.preCommit.exists \/ proj.prePush.exists THEN {TRUE} ELSE BOOLEAN :
    IF ~ huskyDir
      THEN Ran("fix-husky-hooks", TRUE, proj.pkg, proj.preCommit, proj.prePush)
      ELSE Ran("fix-husky-hooks", TRUE,
               IF proj.pkg.valid THEN [proj.pkg EXCEPT !.checkGitignore = "check"] ELSE proj.pkg,
               fixHook(proj.preCommit), fixHook(proj.prePush))

\* uninstall.mjs
Uninstall ==
  \E answer \in BOOLEAN :
    IF ~ answer
      THEN Ran("uninstall", FALSE, proj.pkg, proj.preCommit, proj.prePush)
      ELSE Ran("uninstall", TRUE, removeScripts(proj.pkg),
               removeHook(proj.preCommit), removeHook(proj.prePush))

\* curl-uninstall.sh
CurlUninstall ==
  \E confirm \in BOOLEAN :
    IF ~ confirm
      THEN Ran("curl-uninstall", FALSE, proj.pkg, proj.preCommit, proj.prePush)
      ELSE Ran("curl-uninstall", TRUE, removeScripts(proj.pkg),
               removeHookGrep(proj.preCommit), removeHookGrep(proj.prePush))

NextInstall ==
  \/ InstallToProject
  \/ CurlInstall
  \/ UpdateJs
  \/ FixHuskyHooks
  \/ Uninstall
  \/ CurlUninstall

SpecInstall == InitInstall /\ [][NextInstall]_vars

\* ==================================================================== claims
\* position of a check in the order the specification gives
PositionOf(check) ==
  CASE check = "gitignore"   -> 1
    [] check = "lowercase"   -> 2
    [] check = "build"       -> 3
    [] check = "gitReminder" -> 4

\* C1: when an enabled, enforcing check finds a violation the hook stops at
\* that check: no later check is started and the hook exits non-zero.
C1_StopsAtEnforcedViolation ==
  \A c \in blocking :
    /\ Len(started) <= PositionOf(c)
    /\ phase = "done" => hookExit # 0

C3_EnforcedBuildFailureBlocks ==
  "build" \in blocking =>
    /\ Len(exits) >= 3 => exits[3] # 0
    /\ phase = "done" => hookExit # 0

\* hooks-config.js has an enabled entry for the check with enforce: false
ExplicitlyAdvisory(entry) ==
  /\ configLoad = "loaded"
  /\ entry.present
  /\ entry.enabled # "false"
  /\ entry.enforce = "false"

\* C4: with build.enforce false, a failed build ends the build step with exit
\* code zero and the hook goes on to the git reminder.
C4_AdvisoryBuildFailureContinues ==
  [][ (phase = "exited" /\ obs.check = "build" /\ obs.finding /\ ExplicitlyAdvisory(obs.entry))
        => (obs.exit = 0 /\ phase' = "shell" /\ idx' = 4) ]_vars

\* C5: a hook whose entry has enabled: false does nothing (no scan, no file
\* write, no staging, no build) and its check ends with exit code zero.
C5_DisabledDoesNothing ==
  (phase = "exited" /\ configLoad = "loaded" /\ obs.entry.present /\ obs.entry.enabled = "false")
    => /\ obs.how = "disabled"
       /\ ~ obs.wrote
       /\ ~ obs.added
       /\ obs.attempted = 0
       /\ obs.exit = 0

\* the enabled flag the specification gives a hook entry
SpecEnabled(entry) ==
  IF entry.present /\ entry.enabled # "unset" THEN entry.enabled = "true" ELSE TRUE

\* the enforce flag the specification gives a hook entry
SpecEnforce(check, entry) ==
  IF entry.present /\ entry.enforce # "unset" THEN entry.enforce = "true"
  ELSE check \in {"build", "gitignore"}

\* C6: whatever the config file omits, a hook is enabled unless enabled is
\* given as false, and it enforces by default for build and gitignore and
\* not for lowercase and gitReminder, unless enforce is given.
C6_DefaultsFillOmittedFlags ==
  (phase = "exited" /\ obs.version = "configurable" /\ configLoad \in {"absent", "loaded"})
    => LET used == EffectiveEntry(obs.check, configLoad, obs.entry)
       IN  /\ (~ IsDisabled(used)) = SpecEnabled(obs.entry)
           /\ SpecEnabled(obs.entry) => (shouldEnforce(used) = SpecEnforce(obs.check, obs.entry))
           /\ SpecEnabled(obs.entry) => obs.how # "disabled"

\* C7: when loading the config file throws, the check neither crashes nor is
\* disabled: it runs under the hard-coded defaults (gitignore and build
\* block on a finding, the git reminder does not).
C7_LoadFailureKeepsDefaults ==
  (phase = "exited" /\ configLoad = "throws")
    => /\ obs.how \notin {"disabled"}
       /\ (obs.how = "crashed") => (obs.check = "build")
       /\ (obs.version = "configurable" /\ obs.check \in {"gitignore", "build"} /\ obs.finding)
            => obs.exit = 1
       /\ (obs.version = "configurable" /\ obs.check = "gitReminder") => obs.exit = 0

C7_Witness ==
  /\ phase = "exited"
  /\ configLoad = "throws"
  /\ obs.version = "configurable"
  /\ obs.check = "gitignore"
  /\ obs.how = "checked"
  /\ obs.finding
  /\ obs.exit = 1

\* a pattern is in the file as a (trimmed) line or as a line starting `pattern/`
PresentAsLine(content, pattern) ==
  \E i \in 1..Len(SplitLines(content)) :
     LET line == Trim(SplitLines(content)[i])
     IN  line = pattern \/ StartsWith(line, pattern \o <<"/">>)

\* C8: after the gitignore audit has completed, every pattern of the
\* essential list is in .gitignore as an exact line or as a `pattern/` line.
C8_AllPatternsPresentAfterAudit ==
  (audits >= 1 /\ lastAudit.exit = 0)
    => \A i \in 1..Len(PatternsOf(gitignoreVersion)) :
         PresentAsLine(gitignoreContent, PatternsOf(gitignoreVersion)[i])

\* C9: an audit of the file a previous audit produced changes nothing: same
\* content, no further write (so no second header), nothing staged.
C9_SecondAuditIsNoOp ==
  [][ (audits >= 1 /\ ~ lastAudit.writeFailed /\ audits' = audits + 1)
        => /\ gitignoreContent' = gitignoreContent
           /\ gitignoreExists' = gitignoreExists
           /\ writes' = writes
           /\ adds' = adds ]_vars

C9_Witness ==
  /\ audits = 2
  /\ writes = 1
  /\ ~ lastAudit.wrote
  /\ ~ lastAudit.writeFailed
  /\ Includes(gitignoreContent, <<HeaderChar>>)

\* newline that ends an unterminated last line of the original content
Terminator(original) ==
  IF original # <<>> /\ original[Len(original)] # NL THEN <<NL>> ELSE <<>>

\* C10 (as stated): the result is the original content, a newline if the
\* original was non-empty and unterminated, exactly one header line, then
\* the missing patterns one per line, ending with a newline.
C10_AppendedLayout ==
  audits >= 1 =>
    IF lastAudit.wrote
      THEN gitignoreContent = lastAudit.beforeContent \o Terminator(lastAudit.beforeContent)
                                \o <<HeaderChar, NL>> \o EachLineNL(lastAudit.missing)
      ELSE gitignoreContent = lastAudit.beforeContent /\ gitignoreExists = lastAudit.beforeExists

\* C10 (amended): as stated, except that the appending check-gitignore.js
\* puts one empty line before the header line.
C10_AppendedLayoutWithBlankLine ==
  audits >= 1 =>
    IF lastAudit.wrote
      THEN gitignoreContent = lastAudit.beforeContent \o Terminator(lastAudit.beforeContent)
                                \o (IF gitignoreVersion = "append" THEN <<NL>> ELSE <<>>)
                                \o <<HeaderChar, NL>> \o EachLineNL(lastAudit.missing)
      ELSE gitignoreContent = lastAudit.beforeContent /\ gitignoreExists = lastAudit.beforeExists

C10_Witness ==
  /\ audits >= 1
  /\ lastAudit.wrote
  /\ lastAudit.beforeContent # <<>>
  /\ ~ EndsWith(lastAudit.beforeContent, <<NL>>)
  /\ Len(lastAudit.missing) >= 2

\* C11: an audit that finds a missing pattern writes .gitignore and then
\* stages it (failures of the write or of `git add` itself set aside); an
\* audit that finds none neither writes nor stages.
C11_WritesThenStages ==
  audits >= 1 =>
    /\ (lastAudit.missing # <<>> /\ ~ lastAudit.writeFailed /\ ~ lastAudit.addFailed)
          => (lastAudit.wrote /\ lastAudit.added)
    /\ lastAudit.added => lastAudit.wrote
    /\ lastAudit.missing = <<>> => (~ lastAudit.wrote /\ ~ lastAudit.added)

\* C12: a lowercase audit with a finding exits non-zero when hooks-config.js
\* sets lowercase.enforce to true and exits zero when it sets it to false.
C12_LowercaseExitFollowsEnforce ==
  (/\ phase = "exited"
   /\ obs.check = "lowercase"
   /\ obs.finding
   /\ configLoad = "loaded"
   /\ obs.entry.present
   /\ obs.entry.enabled # "false")
    => /\ obs.entry.enforce = "true" => obs.exit # 0
       /\ obs.entry.enforce = "false" => obs.exit = 0

\* the segments of a path, split at "/"
RECURSIVE SegmentsFrom(_, _, _)
SegmentsFrom(file, i, segment) ==
  IF i > Len(file) THEN <<segment>>
  ELSE IF file[i] = "/" THEN <<segment>> \o SegmentsFrom(file, i + 1, <<>>)
  ELSE SegmentsFrom(file, i + 1, Append(segment, file[i]))

\* one of the directories on the path is node_modules, build or dist
InDependencyOrBuildDirectory(file) ==
  LET segments == SegmentsFrom(file, 1, <<>>)
  IN  \E i \in 1..(Len(segments) - 1) : segments[i] \in {<<"n">>, <<"b">>, <<"d">>}

HasUppercase(text) == \E i \in 1..Len(text) : text[i] = "A"

\* C13: the filenames bucket holds exactly the staged files outside
\* dependency/build directories whose base name has an uppercase character;
\* a file with an all-lowercase base name is never in it.
C13_FileNamesBucket ==
  scan.file # <<>> =>
    LET segments == SegmentsFrom(scan.file, 1, <<>>)
        base == segments[Len(segments)]
    IN  /\ (scan.file \in scan.fileNames)
              <=> (~ InDependencyOrBuildDirectory(scan.file) /\ HasUppercase(base))
        /\ ~ HasUppercase(base) => scan.fileNames = {}

\* C14: an import target extracted from a staged source file (one the scan
\* reads) is in the imports bucket iff it starts with "." and has an
\* uppercase character; package names and URLs are never in it.
C14_ImportsBucket ==
  /\ scan.imports \subseteq scan.targets
  /\ (scan.code /\ scan.readable /\ ~ SkippedFile(scan.file)) =>
        \A t \in scan.targets :
          (t \in scan.imports) <=> (t[1] = "." /\ HasUppercase(t))
  /\ \A t \in scan.imports : t[1] \notin {"a", "A", "h", "s", "/"}

C14_Witness ==
  /\ scan.code /\ scan.readable
  /\ <<".", "/", "A">> \in scan.imports
  /\ <<"A">> \in scan.targets \ scan.imports

\* a staged file touches a member when it lies in the member's directory,
\* or in a shared/common directory outside every member
Touches(member, stagedFiles) ==
  \E file \in stagedFiles :
     \/ StartsWith(file, member.path \o <<"/">>)
     \/ StartsWith(file, <<"s", "/">>)
     \/ StartsWith(file, <<"c", "/">>)

\* C15: in a workspace a member is selected for building iff it has a build
\* script and the staged files touch it; a member with a build script that no
\* staged file touches is not built.
C15_BuildsExactlyTouchedMembers ==
  (ws.stage \in {"loop", "done"} /\ ws.version = "configurable") =>
    /\ \A i \in 1..Len(ws.members) :
         (\E k \in 1..Len(ws.apps) : ws.apps[k].path = ws.members[i].path)
           <=> (ws.members[i].hasBuild /\ Touches(ws.members[i], ws.staged))
    /\ \A k \in 1..Len(ws.begun) :
         \E i \in 1..Len(ws.members) :
            /\ ws.members[i].path = ws.begun[k]
            /\ ws.members[i].hasBuild
            /\ Touches(ws.members[i], ws.staged)

\* the directories of the selected members, in discovery order
PathsOf(apps) == [k \in 1..Len(apps) |-> apps[k].path]

\* C16: member builds run one at a time in discovery order, and the member
\* named (first) in the failure report is the first failing member in that order.
C16_SequentialInDiscoveryOrder ==
  /\ Cardinality(ws.running) <= 1
  /\ Len(ws.begun) <= Len(ws.apps)
  /\ ws.begun = SubSeq(PathsOf(ws.apps), 1, Len(ws.begun))
  /\ ws.running # {} => ws.running = {ws.begun[Len(ws.begun)]}
  /\ \A i, j \in 1..Len(ws.apps) :
       (i < j) => \A m, n \in 1..Len(ws.members) :
          (ws.members[m].path = ws.apps[i].path /\ ws.members[n].path = ws.apps[j].path) => m < n
  /\ ws.reported # <<>> =>
       \E k \in 1..Len(ws.apps) :
          /\ ws.apps[k].path = ws.reported[1]
          /\ ~ ws.apps[k].ok
          /\ \A j \in 1..(k - 1) : ws.apps[j].ok
  /\ ws.version = "configurable" => Len(ws.reported) <= 1

C16_Witness ==
  /\ ws.stage = "done"
  /\ ws.version = "configurable"
  /\ Len(ws.apps) = 2
  /\ Len(ws.built) = 1
  /\ ws.reported = <<ws.apps[2].path>>

\* no script is running inside a run of itself, and the runner never runs
\* inside a script it started
NoReentry ==
  /\ \A i, j \in 1..Len(run.stack) : i # j => run.stack[i].name # run.stack[j].name
  /\ Len(run.stack) <= 2
  /\ run.calls <= Len(run.hook) * (MaxMembers + 1)

ClaimedThreshold ==
  IF rem.version = "configurable" /\ configLoad = "loaded" /\ rem.in.setting # 0
    THEN rem.in.setting ELSE 4

\* C18: the git reminder flags staleness exactly when the time since the
\* last commit exceeds T hours.
C18_StaleExactlyWhenOverThreshold ==
  (rem.how = "checked" /\ rem.in.minutes >= 0)
    => (rem.stale <=> rem.in.minutes > ClaimedThreshold * 60)

\* C19: with gitReminder.enforce true any finding (dirty tree, staleness,
\* branch behind its upstream) makes git-reminder.js exit non-zero; with
\* enforce false (given or by default) it exits zero whatever it finds.
C19_ReminderExitFollowsEnforce ==
  (rem.version = "configurable" /\ rem.how = "checked") =>
    LET enforce == configLoad = "loaded" /\ rem.entry.present /\ rem.entry.enforce = "true"
        dirty == rem.in.changes
        behind == rem.in.minutes >= 0 /\ ~ rem.in.fetchFails /\ rem.in.behind > 0
    IN  /\ (enforce /\ (dirty \/ rem.stale \/ behind)) => rem.exit # 0
        /\ ~ enforce => rem.exit = 0

C19_Witness ==
  /\ rem.version = "configurable"
  /\ rem.how = "checked"
  /\ rem.entry.enforce = "true"
  /\ ~ rem.in.changes
  /\ ~ rem.stale
  /\ rem.in.behind > 0
  /\ rem.exit = 1

\* C20: an environment error (here: git-reminder started outside a git
\* repository) makes the script abort with a non-zero exit, whatever the
\* enforce setting is.
C20_EnvironmentErrorAborts ==
  (rem.how \in {"checked", "skipped"} /\ ~ rem.in.inRepo) => rem.exit # 0

\* C21: an unexpected internal error inside a check is caught and printed
\* inside that check: the check ends with exit code zero and the hook goes
\* on to the next check.
C21_InternalErrorNeverAborts ==
  (phase = "exited" /\ obs.how \in {"caught", "crashed"}) => obs.exit = 0

\* C26: the block one audit appends under the header never holds the same
\* pattern line twice.
C26_NoPatternAppendedTwice ==
  (audits >= 1 /\ lastAudit.wrote) =>
    LET appended == SubSeq(gitignoreContent, Len(lastAudit.beforeContent) + 1, Len(gitignoreContent))
        lines == SplitLines(appended)
    IN  \A i, j \in 1..Len(lines) : (i # j /\ lines[i] = lines[j]) => lines[i] = <<>>

\* C25: in a workspace run every selected member is attempted exactly once;
\* a failed build in non-enforcing mode does not keep the remaining selected
\* members from being built.
C25_EveryMemberAttemptedOnce ==
  (ws.stage = "done" /\ (ws.version = "allReact" \/ ~ ws.enforce))
    => ws.begun = PathsOf(ws.apps)

C27_StagedChangeBlocksWhenEnforcing ==
  (/\ rem.version = "configurable"
   /\ rem.in.inRepo /\ rem.staged
   /\ configLoad # "undefined"
   /\ shouldEnforce(EffectiveEntry("gitReminder", configLoad, rem.entry))
   /\ ~ IsDisabled(EffectiveEntry("gitReminder", configLoad, rem.entry)))
    => rem.how = "checked" /\ rem.finding /\ rem.exit = 1

C27_Witness ==
  /\ rem.version = "configurable"
  /\ configLoad = "loaded" /\ rem.entry.enforce = "true"
  /\ rem.staged /\ ~ rem.unstaged
  /\ ~ rem.stale /\ ~ Behind(rem.in)
  /\ rem.exit = 1

\* one of the directories on the path is node_modules
InNodeModulesDirectory(file) ==
  LET segments == SegmentsFrom(file, 1, <<>>)
  IN  \E i \in 1..(Len(segments) - 1) : segments[i] = <<"n">>

\* C30: an enabled run of the configurable build runner builds nothing and
\* exits 0 when no staged file outside node_modules has a source
\* extension, and goes on to project detection when one has.
C30_GateOnStagedSources ==
  gate.how \notin {"none", "disabled", "crashed"} =>
    LET staged == \E file \in gate.staged :
                     file[Len(file)] = ".js" /\ ~ InNodeModulesDirectory(file)
    IN  /\ ~ staged => (gate.how = "skipped" /\ gate.attempted = 0 /\ gate.exit = 0)
        /\ staged => gate.how \in {"checked", "caught"}

\* C22: after any sequence of installs, updates, fixes and uninstalls the
\* package.json entries that are not the tool's own are as they were.
C22_UnrelatedKeysUnchanged ==
  proj.pkg.lint = proj.initial.lint /\ proj.pkg.valid

\* C24: every `npm run` line for one of the tool's scripts in a hook file
\* names a script that package.json has.
C24_HookScriptsPresent ==
  \A hook \in {proj.preCommit, proj.prePush} :
    \A i \in 1..Len(hook.lines) :
      (hook.lines[i][1] = "npm run"
         /\ hook.lines[i][2] \in {"check-gitignore", "check-lowercase", "git-reminder", "build:dev"})
        => scriptPresent(proj.pkg, hook.lines[i][2])

\* C28: an uninstall changes a hook file only by deleting it, and only when
\* the file holds `npm run check-gitignore` or `npm run build:dev`; a
\* declined prompt changes nothing.
C28_UninstallRemovesOnlyMarkedHooks ==
  [][(proj'.n = proj.n + 1 /\ proj'.last \in {"uninstall", "curl-uninstall"}) =>
       /\ ~ proj'.confirmed =>
            (proj'.pkg = proj.pkg /\ proj'.preCommit = proj.preCommit
               /\ proj'.prePush = proj.prePush)
       /\ \A name \in {"preCommit", "prePush"} :
            proj'[name] # proj[name] =>
              /\ ~ proj'[name].exists
              /\ hookIncludes(proj[name], <<"npm run", "check-gitignore">>)
                   \/ hookIncludes(proj[name], <<"npm run", "build:dev">>)]_vars

\* C29: one install followed by one uninstall leaves the scripts of
\* package.json as they were before the install, prepare and a build:dev
\* of the project included.
C29_InstallUninstallRestoresScripts ==
  proj.history = "uninstalled" =>
    /\ proj.pkg.prepare = proj.initial.prepare
    /\ proj.pkg.buildDev = proj.initial.buildDev
    /\ proj.pkg.checkGitignore = proj.initial.checkGitignore
    /\ proj.pkg.checkLowercase = proj.initial.checkLowercase
    /\ proj.pkg.gitReminder = proj.initial.gitReminder

====
